---- MODULE Spec2Model ----
(***************************************************************************)
(* langfun/core/llms/vertexai.py: the Vertex AI adapter.                   *)
(*                                                                         *)
(* State: the process environment, the adapter instances (their bound      *)
(* fields and the cached `_api_initialized` entry of their __dict__), the  *)
(* provider SDK's global initialisation, the process-wide model hub        *)
(* (_VERTEXAI_MODEL_HUB) and, per adapter, the _sample call in progress    *)
(* with one task per prompt.  Each adapter instance is driven by one       *)
(* caller thread (its calls and rebinds are sequential); the tasks of all  *)
(* calls run concurrently on the worker threads of the executor named by   *)
(* the adapter's resource_id.                                              *)
(*                                                                         *)
(* Spec is sampling on one configured instance, of every model and with    *)
(* every prompt; SpecConfig is the lazy initialisation of one instance     *)
(* under every environment, with rebinds; SpecShared is two instances      *)
(* sampling concurrently.                                                  *)
(***************************************************************************)
EXTENDS Integers, Sequences, FiniteSets, TLC

\* ------------------------------------------------------------------ bounds
MaxPrompts == 2
MaxAttempts == 2

None == "None"

Max(x, y) == IF x >= y THEN x ELSE y

\* ---------------------------------------------------------------- registry
SUPPORTED_MODELS_AND_SETTINGS ==
    [m \in {"gemini-1.5-pro-preview-0409", "gemini-1.0-pro",
            "gemini-1.0-pro-vision", "text-bison", "text-bison-32k",
            "text-unicorn"} |->
        CASE m = "gemini-1.5-pro-preview-0409" -> [api |-> "gemini", rpm |-> 5]
          [] m = "gemini-1.0-pro"              -> [api |-> "gemini", rpm |-> 300]
          [] m = "gemini-1.0-pro-vision"       -> [api |-> "gemini", rpm |-> 100]
          [] m = "text-bison"                  -> [api |-> "palm", rpm |-> 1600]
          [] m = "text-bison-32k"              -> [api |-> "palm", rpm |-> 300]
          [] m = "text-unicorn"                -> [api |-> "palm", rpm |-> 100]]

Models == DOMAIN SUPPORTED_MODELS_AND_SETTINGS

\* The VertexAI instances of the process.
Adapters == {"lm1", "lm2"}

\* ----------------------------------------------------------------- prompts
\* A prompt is the sequence of chunks prompt.chunk() yields: str chunks and
\* modality objects (lf_modalities.Image, or another modality).
Str(s) == [kind |-> "str", data |-> s]
Image(b) == [kind |-> "Image", data |-> b]
Audio(b) == [kind |-> "Audio", data |-> b]

PromptPool ==
    { <<Str("a")>>,
      <<Str("b"), Image("x")>>,
      <<Audio("y"), Str("c")>> }

PromptSeqs ==
    UNION {[1..k -> PromptPool] : k \in 0..MaxPrompts}

\* ------------------------------------------------------------------ errors
ValueError(what) == [kind |-> "ValueError", msg |-> what]
ProviderError == [kind |-> "ProviderError", msg |-> "provider"]


\* --------------------------------------------------------------- variables
VARIABLES
    environ,      \* os.environ: VERTEXAI_PROJECT, VERTEXAI_LOCATION
    adapter,      \* the bound fields of each VertexAI instance
    dict,         \* whether '_api_initialized' is in the instance's __dict__
    hub,          \* _VERTEXAI_MODEL_HUB: the two handle caches
    pool,         \* the executors created so far, by resource key
    call,         \* per adapter: the _sample call in progress or last ended
    tasks,        \* per adapter: one task per prompt of that call
    hist          \* history: the vertexai.init calls made for the instance
                  \* since it was bound (since_bound) and under its previous
                  \* binding (prior); whether a call on it raised the
                  \* configuration error (failed); the handles constructed
                  \* per cache and model id (built)

vars == <<environ, adapter, dict, hub, pool, call, tasks, hist>>

Falsy(v) == v \in {None, ""}

\* ------------------------------------------------------ adapter properties
\* self.project or os.environ.get('VERTEXAI_PROJECT', None)
ResolvedProject(self) ==
    IF ~Falsy(adapter[self].project) THEN adapter[self].project
    ELSE environ.VERTEXAI_PROJECT

\* self.location or os.environ.get('VERTEXAI_LOCATION', None)
ResolvedLocation(self) ==
    IF ~Falsy(adapter[self].location) THEN adapter[self].location
    ELSE environ.VERTEXAI_LOCATION

\* Mutant: a plain property, the getter runs on every access.
_api_initialized_uncached(self) ==
    IF Falsy(ResolvedProject(self))
        THEN [raised |-> <<ValueError("project")>>, init |-> FALSE]
    ELSE IF Falsy(ResolvedLocation(self))
        THEN [raised |-> <<ValueError("location")>>, init |-> FALSE]
    ELSE [raised |-> <<>>, init |-> TRUE]

\* Mutant: the location is checked before the project.
_api_initialized_location_first(self) ==
    IF dict[self] THEN [raised |-> <<>>, init |-> FALSE]
    ELSE IF Falsy(ResolvedLocation(self))
        THEN [raised |-> <<ValueError("location")>>, init |-> FALSE]
    ELSE IF Falsy(ResolvedProject(self))
        THEN [raised |-> <<ValueError("project")>>, init |-> FALSE]
    ELSE [raised |-> <<>>, init |-> TRUE]

\* The outcome of evaluating the cached property _api_initialized: the cached
\* value, or the getter's result: a ValueError, or an init call and True.
\* [raised, init, args]
_api_initialized(self) ==
    IF dict[self] THEN [raised |-> <<>>, init |-> FALSE]
    ELSE IF Falsy(ResolvedProject(self))
        THEN [raised |-> <<ValueError("project")>>, init |-> FALSE]
    ELSE IF Falsy(ResolvedLocation(self))
        THEN [raised |-> <<ValueError("location")>>, init |-> FALSE]
    ELSE [raised |-> <<>>, init |-> TRUE]

model_id(self) == <<"VertexAI", adapter[self].model>>

\* Mutant: the resource is named after the instance, not the model alone.
resource_id_of_instance(self) == <<"VertexAI", adapter[self].model, self>>

resource_id(self) == model_id(self)

\* lf.LanguageModel.rate_to_max_concurrency, called with tokens_per_min = 0
\* only: a positive number of workers derived from the requests per minute.
rate_to_max_concurrency(requests_per_min, tokens_per_min) ==
    IF tokens_per_min > 0 THEN Max(tokens_per_min \div 60, 1)
    ELSE IF requests_per_min > 0 THEN Max(requests_per_min \div 60, 1)
    ELSE 1

max_concurrency(self) ==
    rate_to_max_concurrency(
        SUPPORTED_MODELS_AND_SETTINGS[adapter[self].model].rpm, 0)

\* Mutant: the executor is told to retry on the provider's errors.
retry_on_provider_errors == {"ProviderError"}

\* retry_on_errors=None: the set of error kinds the executor retries.
retry_on_errors == {}

RECURSIVE Deduplicated(_)
Deduplicated(s) ==
    IF s = <<>> THEN <<>>
    ELSE LET init == Deduplicated(SubSeq(s, 1, Len(s) - 1))
         IN  IF \E k \in 1..(Len(s) - 1) : s[k] = s[Len(s)] THEN init
             ELSE Append(init, s[Len(s)])

\* Mutant: the prompts are handed on without their repetitions.
parallel_inputs_deduplicated(prompts) == Deduplicated(prompts)

\* The inputs handed to concurrent_execute: the prompts, as given.
parallel_inputs(prompts) == prompts

\* What of project and location neither the instance's field nor the
\* environment gives.
Unresolved(self) ==
    {f \in {"project", "location"} :
        /\ Falsy(adapter[self][f])
        /\ Falsy(IF f = "project" THEN environ.VERTEXAI_PROJECT
                 ELSE environ.VERTEXAI_LOCATION)}

\* ------------------------------------------------------ prompt translation
RECURSIVE _content_from_message_skipping(_, _)
\* Mutant: a chunk that cannot be sent is left out instead of raising.
_content_from_message_skipping(multimodal, prompt) ==
    IF prompt = <<>> THEN [raised |-> <<>>, chunks |-> <<>>]
    ELSE LET lf_chunk == Head(prompt)
             rest == _content_from_message_skipping(multimodal, Tail(prompt))
         IN  IF lf_chunk.kind = "str"
               THEN [rest EXCEPT !.chunks = <<lf_chunk>> \o @]
             ELSE IF multimodal /\ lf_chunk.kind = "Image"
               THEN [rest EXCEPT !.chunks =
                        <<[kind |-> "generative_models.Image",
                           data |-> lf_chunk.data]>> \o @]
             ELSE rest

RECURSIVE _content_from_message(_, _)
\* [raised, chunks]: the chunks built so far, or the error of the first chunk
\* that is neither a str nor (with multimodal) an Image.
_content_from_message(multimodal, prompt) ==
    IF prompt = <<>> THEN [raised |-> <<>>, chunks |-> <<>>]
    ELSE LET lf_chunk == Head(prompt)
             rest == _content_from_message(multimodal, Tail(prompt))
         IN  IF lf_chunk.kind = "str"
               THEN [rest EXCEPT !.chunks = IF rest.raised = <<>>
                                           THEN <<lf_chunk>> \o @ ELSE @]
             ELSE IF multimodal /\ lf_chunk.kind = "Image"
               THEN [rest EXCEPT !.chunks =
                        IF rest.raised = <<>>
                        THEN <<[kind |-> "generative_models.Image",
                                data |-> lf_chunk.data]>> \o @
                        ELSE @]
             ELSE [raised |-> <<[kind |-> "ValueError",
                                 msg |-> "Unsupported modality",
                                 chunk |-> lf_chunk]>>,
                   chunks |-> <<>>]

\* prompt.text: the prompt rendered as text, a modality object as a reference.
Text(prompt) ==
    [i \in 1..Len(prompt) |->
        IF prompt[i].kind = "str" THEN prompt[i]
        ELSE [kind |-> "ref", data |-> prompt[i].data]]


\* ------------------------------------------------------------------- tasks
\* One task is one call func(prompt) the executor makes for one prompt:
\*   pending   submitted, waiting for a worker of its executor
\*   start     on a worker, at the top of _sample_single again (a retry)
\*   miss      in get_*_model: the cache had no entry, none constructed yet
\*   inflight  the provider request (generate_content / predict) is out
\*   done      returned or raised
NoOutcome == [kind |-> "none"]

NewTask ==
    [pc |-> "pending", path |-> "none", cache |-> "none", handle |-> 0,
     attempts |-> 0, requests |-> 0, out |-> NoOutcome]

OnWorker(t) == t.pc \in {"start", "miss", "inflight"}

\* The tasks of every call that runs on executor `key`.
TasksOf(key) ==
    {p \in Adapters \X (1..MaxPrompts) :
        /\ call[p[1]].pc = "running"
        /\ call[p[1]].executor = key
        /\ p[2] \in 1..Len(tasks[p[1]])}

Busy(key) == Cardinality({p \in TasksOf(key) : OnWorker(tasks[p[1]][p[2]])})

MaxWorkers(key) == (CHOOSE e \in pool : e.key = key).max_workers

\* with_retry: func raised `e`; the executor calls it again when e is one of
\* the errors to retry on and attempts remain, and else the task ends with e.
Raised(t, e, retry) ==
    IF e.kind \in retry /\ t.attempts < MaxAttempts
    THEN [t EXCEPT !.pc = "start"]
    ELSE [t EXCEPT !.pc = "done", !.out = e]

\* lf.LMSamplingResult of a provider response; usage only where given.
LMSamplingResult(text, usage) ==
    [kind |-> "LMSamplingResult",
     samples |-> <<[response |-> text, score |-> 0]>>,
     usage |-> usage]

\* The provider's answer to a request: its text names the request it answers.
Response(request) ==
    [text |-> [answer_to |-> request],
     usage_metadata |-> [prompt_token_count |-> Len(request),
                         candidates_token_count |-> 1,
                         total_token_count |-> Len(request) + 1]]

\* ------------------------------------------------------------------- state
Configs ==
    [model : Models, project : {None, "prj"}, location : {None, "loc"},
     multimodal : BOOLEAN]

\* The call record of an instance no _sample call was made on since it was
\* bound.
IdleCall ==
    [pc |-> "idle", prompts |-> <<>>, n |-> 1, executor |-> <<>>,
     retry |-> {}, results |-> <<>>, raised |-> <<>>, ooo |-> FALSE,
     missing |-> {}, cached |-> FALSE]

InitRest ==
    /\ dict = [a \in Adapters |-> FALSE]
    /\ hub = [generative |-> [m \in Models |-> 0],
              text |-> [m \in Models |-> 0]]
    /\ pool = {}
    /\ call = [a \in Adapters |-> IdleCall]
    /\ tasks = [a \in Adapters |-> <<>>]
    /\ hist = [since_bound |-> [a \in Adapters |-> 0],
               prior |-> [a \in Adapters |-> 0],
               failed |-> [a \in Adapters |-> FALSE],
               built |-> [f \in {"generative", "text"} |->
                            [m \in Models |-> 0]]]

\* One instance of any model, with or without multimodal, its project and
\* location given; the other instance stays as constructed.
Init ==
    /\ environ = [VERTEXAI_PROJECT |-> None, VERTEXAI_LOCATION |-> None]
    /\ adapter \in [Adapters -> Configs]
    /\ adapter["lm1"].project = "prj"
    /\ adapter["lm1"].location = "loc"
    /\ adapter["lm2"] = [model |-> "text-bison", project |-> None,
                         location |-> None, multimodal |-> FALSE]
    /\ InitRest

\* One instance of any model under every environment, constructed with or
\* without project and location.
InitConfig ==
    /\ environ \in [{"VERTEXAI_PROJECT", "VERTEXAI_LOCATION"} ->
                       {None, "", "env"}]
    /\ adapter \in [Adapters -> Configs]
    /\ ~adapter["lm1"].multimodal
    /\ adapter["lm2"] = [model |-> "text-bison", project |-> None,
                         location |-> None, multimodal |-> FALSE]
    /\ InitRest

\* The models whose budget of workers the prompts of one call can exceed.
SharedModels ==
    {m \in Models :
        rate_to_max_concurrency(SUPPORTED_MODELS_AND_SETTINGS[m].rpm, 0)
            < MaxPrompts}

\* Two instances of any two of these models, project and location given.
InitShared ==
    /\ environ = [VERTEXAI_PROJECT |-> None, VERTEXAI_LOCATION |-> None]
    /\ adapter \in [Adapters -> Configs]
    /\ \A a \in Adapters : /\ adapter[a].model \in SharedModels
                           /\ adapter[a].project = "prj"
                           /\ adapter[a].location = "loc"
                           /\ ~adapter[a].multimodal
    /\ InitRest

\* ----------------------------------------------------------------- actions
\* os.environ is set or cleared outside the adapter.
SetEnv(name, value) ==
    /\ environ' = [environ EXCEPT ![name] = value]
    /\ environ' # environ
    /\ UNCHANGED <<adapter, dict, hub, pool, call, tasks, hist>>

\* pg rebind of the instance's fields, then _on_bound: the cached
\* _api_initialized is popped from __dict__.
_on_bound(self, project, location) ==
    /\ call[self].pc # "running"
    /\ adapter' = [adapter EXCEPT ![self].project = project,
                                  ![self].location = location]
    /\ dict' = [dict EXCEPT ![self] = FALSE]
    /\ hist' = [hist EXCEPT !.since_bound[self] = 0,
                            !.prior[self] = hist.since_bound[self]]
    /\ call' = [call EXCEPT ![self] = IdleCall]
    /\ tasks' = [tasks EXCEPT ![self] = <<>>]
    /\ UNCHANGED <<environ, hub, pool>>

\* _sample(prompts) under sampling_options.n = n: the assert on
\* _api_initialized, then concurrent_execute submits one task per prompt to
\* the executor of resource_id.
_sample(self, prompts, n) ==
    /\ call[self].pc # "running"
    /\ LET ok == _api_initialized(self)
           key == resource_id(self)
           before == [IdleCall EXCEPT !.prompts = prompts,
                                      !.n = n,
                                      !.missing = Unresolved(self),
                                      !.cached = dict[self]]
       IN  /\ hist' = [hist EXCEPT
                  !.since_bound[self] = IF ok.init THEN @ + 1 ELSE @,
                  !.failed[self] = @ \/ ok.raised # <<>>]
           /\ IF ok.raised # <<>>
              THEN /\ call' = [call EXCEPT ![self] =
                          [before EXCEPT !.pc = "raised",
                                         !.raised = ok.raised]]
                   /\ UNCHANGED <<dict, pool>>
              ELSE /\ dict' = [dict EXCEPT ![self] = TRUE]
                   /\ pool' = IF \E e \in pool : e.key = key THEN pool
                              ELSE pool \cup {[key |-> key,
                                     max_workers |-> max_concurrency(self)]}
                   /\ call' = [call EXCEPT ![self] =
                          [before EXCEPT
                              !.pc = IF parallel_inputs(prompts) = <<>>
                                     THEN "returned" ELSE "running",
                              !.executor = key,
                              !.retry = retry_on_errors]]
           /\ tasks' = [tasks EXCEPT ![self] =
                           IF ok.raised # <<>> THEN <<>>
                           ELSE [i \in 1..Len(parallel_inputs(prompts)) |->
                                    NewTask]]
    /\ UNCHANGED <<environ, adapter, hub>>

\* Mutant: the text model is looked up in the generative cache.
get_text_generation_model_in_generative_cache(id) ==
    [cache |-> "generative", model |-> hub.generative[id]]

\* _ModelHub.get_generative_model / get_text_generation_model, the lookup:
\* self._*_cache.get(model_id, None), 0 for None.
get_generative_model(id) ==
    [cache |-> "generative", model |-> hub.generative[id]]

get_text_generation_model(id) ==
    [cache |-> "text", model |-> hub.text[id]]

\* Mutant: the check of n lets two samples through.
_sample_single_n_off_by_one(n, api) ==
    IF n > 2 THEN [raised |-> <<ValueError("n greater than 1")>>,
                   path |-> "none"]
    ELSE CASE api = "gemini" -> [raised |-> <<>>, path |-> "generative"]
           [] api = "palm"   -> [raised |-> <<>>, path |-> "text"]
           [] OTHER -> [raised |-> <<ValueError("Unsupported API")>>,
                        path |-> "none"]

\* _sample_single up to the hub lookup: the check of n, then the match on the
\* registry's api.  [raised, path]
_sample_single(n, api) ==
    IF n > 1 THEN [raised |-> <<ValueError("n greater than 1")>>,
                   path |-> "none"]
    ELSE CASE api = "gemini" -> [raised |-> <<>>, path |-> "generative"]
           [] api = "palm"   -> [raised |-> <<>>, path |-> "text"]
           [] OTHER -> [raised |-> <<ValueError("Unsupported API")>>,
                        path |-> "none"]

\* What the task sends to the provider.  [raised, request]
\* _sample_generative_model: the content built from the message;
\* _sample_text_generation_model: prompt.text.
Request(path, multimodal, prompt) ==
    IF path = "generative"
    THEN LET input_content == _content_from_message(multimodal, prompt)
         IN  [raised |-> input_content.raised,
              request |-> input_content.chunks]
    ELSE [raised |-> <<>>, request |-> Text(prompt)]

\* lf.AIMessage(response.text)
_generation_response_to_message(response) == response.text

\* What the task returns for the provider's response.
Result(path, response) ==
    IF path = "generative"
    THEN LMSamplingResult(_generation_response_to_message(response),
            <<[prompt_tokens |-> response.usage_metadata.prompt_token_count,
               completion_tokens |->
                   response.usage_metadata.candidates_token_count,
               total_tokens |-> response.usage_metadata.total_token_count]>>)
    ELSE LMSamplingResult(response.text, <<>>)

\* The task's new state, and whether it ended before an earlier prompt's task.
Put(self, i, t) ==
    /\ tasks' = [tasks EXCEPT ![self][i] = t]
    /\ call' = [call EXCEPT ![self].ooo =
                  @ \/ (t.pc = "done"
                        /\ \E j \in 1..(i - 1) : tasks[self][j].pc # "done")]

\* With its handle, the task builds the request and sends it:
\* model.generate_content / model.predict.
Send(self, i, t) ==
    LET r == Request(t.path, adapter[self].multimodal,
                     parallel_inputs(call[self].prompts)[i])
    IN  IF r.raised # <<>>
        THEN Put(self, i, Raised(t, r.raised[1], call[self].retry))
        ELSE Put(self, i, [t EXCEPT !.pc = "inflight", !.requests = @ + 1])

\* A worker takes the task (or calls func again) and runs _sample_single to
\* the lookup in the hub's cache and, on a hit, to the provider request.
Start(self, i) ==
    /\ call[self].pc = "running"
    /\ i \in 1..Len(tasks[self])
    /\ \/ tasks[self][i].pc = "start"
       \/ /\ tasks[self][i].pc = "pending"
          /\ Busy(call[self].executor) < MaxWorkers(call[self].executor)
    /\ LET t == [tasks[self][i] EXCEPT !.attempts = @ + 1]
           m == adapter[self].model
           d == _sample_single(call[self].n,
                               SUPPORTED_MODELS_AND_SETTINGS[m].api)
           got == IF d.path = "generative" THEN get_generative_model(m)
                  ELSE get_text_generation_model(m)
           t1 == [t EXCEPT !.path = d.path,
                           !.cache = got.cache,
                           !.handle = got.model]
       IN  IF d.raised # <<>>
           THEN Put(self, i, Raised(t, d.raised[1], call[self].retry))
           ELSE IF got.model = 0
           THEN Put(self, i, [t1 EXCEPT !.pc = "miss"])
           ELSE Send(self, i, t1)
    /\ UNCHANGED <<environ, adapter, dict, hub, pool, hist>>

\* get_*_model after a miss: construct the handle and store it in the cache
\* that was looked up; then on to the provider request.
Construct(self, i) ==
    /\ call[self].pc = "running"
    /\ i \in 1..Len(tasks[self])
    /\ tasks[self][i].pc = "miss"
    /\ LET t == tasks[self][i]
           m == adapter[self].model
           model == hist.built[t.cache][m] + 1
       IN  /\ hist' = [hist EXCEPT !.built[t.cache][m] = model]
           /\ hub' = [hub EXCEPT ![t.cache][m] = model]
           /\ Send(self, i, [t EXCEPT !.handle = model])
    /\ UNCHANGED <<environ, adapter, dict, pool>>

\* The provider answers or fails.
Respond(self, i, ok) ==
    /\ call[self].pc = "running"
    /\ i \in 1..Len(tasks[self])
    /\ tasks[self][i].pc = "inflight"
    /\ LET t == tasks[self][i]
           r == Request(t.path, adapter[self].multimodal,
                        parallel_inputs(call[self].prompts)[i])
       IN  IF ok
           THEN Put(self, i, [t EXCEPT
                    !.pc = "done",
                    !.out = Result(t.path, Response(r.request))])
           ELSE Put(self, i, Raised(t, ProviderError, call[self].retry))
    /\ UNCHANGED <<environ, adapter, dict, hub, pool, hist>>

\* concurrent_execute returns once every task has ended: one outcome per
\* prompt, at the prompt's position.
Return(self) ==
    /\ call[self].pc = "running"
    /\ \A i \in 1..Len(tasks[self]) : tasks[self][i].pc = "done"
    /\ call' = [call EXCEPT ![self].pc = "returned",
                            ![self].results =
                                [i \in 1..Len(tasks[self]) |->
                                    tasks[self][i].out]]
    /\ tasks' = [tasks EXCEPT ![self] = <<>>]
    /\ UNCHANGED <<environ, adapter, dict, hub, pool, hist>>

Positions == 1..MaxPrompts

\* Sampling on one configured instance.
Next ==
    \/ \E prompts \in PromptSeqs, n \in {1, 2} : _sample("lm1", prompts, n)
    \/ \E i \in Positions : Start("lm1", i)
    \/ \E i \in Positions : Construct("lm1", i)
    \/ \E i \in Positions, ok \in BOOLEAN : Respond("lm1", i, ok)
    \/ Return("lm1")

Spec == Init /\ [][Next]_vars

\* Lazy initialisation: one instance is sampled with a text prompt or none,
\* rebound, and the environment changes.
NextConfig ==
    \/ \E name \in {"VERTEXAI_PROJECT", "VERTEXAI_LOCATION"},
          value \in {None, "", "env"} : SetEnv(name, value)
    \/ \E project \in {None, "prj"}, location \in {None, "loc"} :
          _on_bound("lm1", project, location)
    \/ \E prompts \in {<<>>, <<<<Str("a")>>>>} : _sample("lm1", prompts, 1)
    \/ Start("lm1", 1)
    \/ Construct("lm1", 1)
    \/ \E ok \in BOOLEAN : Respond("lm1", 1, ok)
    \/ Return("lm1")

SpecConfig == InitConfig /\ [][NextConfig]_vars

\* Two instances sample text prompts concurrently.
SharedPrompts == UNION {[1..k -> {<<Str("a")>>}] : k \in 0..MaxPrompts}

NextShared ==
    \/ \E self \in Adapters, prompts \in SharedPrompts :
          _sample(self, prompts, 1)
    \/ \E self \in Adapters, i \in Positions : Start(self, i)
    \/ \E self \in Adapters, i \in Positions : Construct(self, i)
    \/ \E self \in Adapters, i \in Positions, ok \in BOOLEAN :
          Respond(self, i, ok)
    \/ \E self \in Adapters : Return(self)

SpecShared == InitShared /\ [][NextShared]_vars

\* ------------------------------------------------------------------ claims
Ok(r) == r.kind = "LMSamplingResult"

\* The request a result's response text answers.
Asked(r) == r.samples[1].response.answer_to

Api(self) == SUPPORTED_MODELS_AND_SETTINGS[adapter[self].model].api

\* The request that carries the whole prompt: on the generative API every
\* chunk in its place, a str as it is and an image wrapped; on the text API
\* the prompt's text.
Carries(self, prompt) ==
    [k \in 1..Len(prompt) |->
        IF prompt[k].kind = "str" THEN prompt[k]
        ELSE IF Api(self) = "gemini"
        THEN [kind |-> "generative_models.Image", data |-> prompt[k].data]
        ELSE [kind |-> "ref", data |-> prompt[k].data]]

AllOk(self) ==
    \A i \in 1..Len(call[self].results) : Ok(call[self].results[i])

\* C1: a _sample call with n <= 1 whose per-prompt calls all succeeded
\* returns as many results as it was given prompts, and result i answers
\* prompt i, in whatever order the tasks ended.
C1_ResultsInInputOrder ==
    \A a \in Adapters :
        (call[a].pc = "returned" /\ call[a].n <= 1 /\ AllOk(a)) =>
            /\ Len(call[a].results) = Len(call[a].prompts)
            /\ \A i \in 1..Len(call[a].prompts) :
                  Asked(call[a].results[i]) = Carries(a, call[a].prompts[i])

\* Two different prompts, both answered, the second task ended first.
C1_Witness ==
    \E a \in Adapters :
        /\ call[a].pc = "returned"
        /\ Len(call[a].prompts) = MaxPrompts
        /\ call[a].prompts[1] # call[a].prompts[2]
        /\ Len(call[a].results) = MaxPrompts
        /\ AllOk(a)
        /\ call[a].ooo

Live(self) == 1..Len(tasks[self])

Caches == {"generative", "text"}

\* C2: at most one handle is ever constructed for a cache and model id, and
\* every task that holds a handle for the pair holds the cached one.
C2_OneHandlePerPair ==
    /\ \A c \in Caches, m \in Models : hist.built[c][m] <= 1
    /\ \A a \in Adapters : \A i \in Live(a) :
          tasks[a][i].handle # 0 =>
              tasks[a][i].handle = hub[tasks[a][i].cache][adapter[a].model]

NGreaterThanOne == ValueError("n greater than 1")

\* C5 as claimed: every _sample call with n > 1 that has ended ended in a
\* ValueError.
C5_EveryCallFails ==
    \A a \in Adapters :
        (call[a].n > 1 /\ call[a].pc \in {"returned", "raised"}) =>
            \/ call[a].pc = "raised"
            \/ \E i \in 1..Len(call[a].results) :
                  call[a].results[i].kind = "ValueError"

\* C5, amended: under n > 1 no task of the call reaches the hub or the
\* provider, each ends in the ValueError on n, and a call given at least one
\* prompt returns that error for every prompt.
C5_NoRequestWhenNGreaterThanOne ==
    \A a \in Adapters :
        call[a].n > 1 =>
            /\ \A i \in Live(a) :
                  /\ tasks[a][i].pc \in {"pending", "done"}
                  /\ tasks[a][i].cache = "none"
                  /\ tasks[a][i].handle = 0
                  /\ tasks[a][i].requests = 0
                  /\ tasks[a][i].pc = "done" =>
                        tasks[a][i].out = NGreaterThanOne
            /\ (call[a].pc = "returned" /\ call[a].prompts # <<>>) =>
                  /\ Len(call[a].results) = Len(call[a].prompts)
                  /\ \A i \in 1..Len(call[a].results) :
                        call[a].results[i] = NGreaterThanOne

C5_Witness ==
    \E a \in Adapters :
        /\ call[a].n > 1
        /\ call[a].pc = "returned"
        /\ Len(call[a].prompts) = MaxPrompts
        /\ \A i \in 1..MaxPrompts : call[a].results[i] = NGreaterThanOne

\* C6: every prompt of a returned call has its own outcome at its own
\* position, whatever became of the other prompts: the result that answers
\* it, the error on n, the provider's error, or the error on a chunk of this
\* very prompt.
C6_EachPromptItsOwnOutcome ==
    \A a \in Adapters :
        call[a].pc = "returned" =>
            /\ Len(call[a].results) = Len(call[a].prompts)
            /\ \A i \in 1..Len(call[a].prompts) :
                  LET r == call[a].results[i]
                      prompt == call[a].prompts[i]
                  IN  \/ Ok(r) /\ Asked(r) = Carries(a, prompt)
                      \/ r = NGreaterThanOne /\ call[a].n > 1
                      \/ r = ProviderError
                      \/ /\ r.kind = "ValueError"
                         /\ r.msg = "Unsupported modality"
                         /\ \E k \in 1..Len(prompt) :
                               /\ r.chunk = prompt[k]
                               /\ prompt[k].kind # "str"

\* The first prompt failed and the prompt after it was answered.
C6_Witness ==
    \E a \in Adapters :
        /\ call[a].pc = "returned"
        /\ Len(call[a].results) = MaxPrompts
        /\ call[a].results[1].kind = "ValueError"
        /\ Ok(call[a].results[2])

\* C8: the provider is asked at most once for a prompt and func is called
\* once: a task that raised, the provider's error included, ends with that
\* error.
C8_NoLocalRetry ==
    \A a \in Adapters : \A i \in Live(a) :
        /\ tasks[a][i].requests <= 1
        /\ tasks[a][i].attempts <= 1
        /\ tasks[a][i].pc # "start"

C8_Witness ==
    \E a \in Adapters : \E i \in Live(a) :
        /\ tasks[a][i].pc = "done"
        /\ tasks[a][i].out = ProviderError
        /\ tasks[a][i].requests = 1

HasImage(prompt) == \E k \in 1..Len(prompt) : prompt[k].kind = "Image"

\* C9: no prompt with an image chunk is sent to the provider by an instance
\* without multimodal, of whatever model: its task ends in the error on the
\* modality.
C9_ImageNeedsMultimodal ==
    \A a \in Adapters : \A i \in Live(a) :
        (/\ ~adapter[a].multimodal
         /\ HasImage(call[a].prompts[i])
         /\ call[a].n <= 1) =>
            /\ tasks[a][i].requests = 0
            /\ tasks[a][i].pc = "done" =>
                  /\ tasks[a][i].out.kind = "ValueError"
                  /\ tasks[a][i].out.msg = "Unsupported modality"

OwnCache(self) == IF Api(self) = "gemini" THEN "generative" ELSE "text"

\* C10: a task takes the path of its model's api and looks up that cache
\* only; the error on the api is never raised; the other cache holds no
\* handle for the model; a result has one sample of score 0 and a usage
\* record exactly on the generative path.
C10_DispatchByRegistry ==
    /\ \A m \in Models :
          LET other == IF SUPPORTED_MODELS_AND_SETTINGS[m].api = "gemini"
                       THEN "text" ELSE "generative"
          IN  hub[other][m] = 0 /\ hist.built[other][m] = 0
    /\ \A a \in Adapters :
          /\ \A i \in Live(a) :
                /\ tasks[a][i].path \in {"none", OwnCache(a)}
                /\ tasks[a][i].cache \in {"none", OwnCache(a)}
                /\ tasks[a][i].out # ValueError("Unsupported API")
                /\ tasks[a][i].pc \in {"miss", "inflight"} =>
                      tasks[a][i].path = OwnCache(a)
          /\ \A i \in 1..Len(call[a].results) :
                LET r == call[a].results[i]
                IN  /\ r # ValueError("Unsupported API")
                    /\ Ok(r) => /\ Len(r.samples) = 1
                                /\ r.samples[1].score = 0
                                /\ (r.usage # <<>>) <=> (Api(a) = "gemini")

C10_Witness ==
    \E a \in Adapters :
        /\ call[a].pc = "returned"
        /\ Len(call[a].results) = MaxPrompts
        /\ AllOk(a)
        /\ Api(a) = "palm"
        /\ hub.text[adapter[a].model] # 0

\* C3 as claimed: once _sample was called on an instance since it was bound,
\* vertexai.init was invoked exactly once for it, on the first call.
C3_InitOnFirstCall ==
    \A a \in Adapters :
        call[a].pc # "idle" => hist.since_bound[a] = 1

\* C3, amended: vertexai.init is invoked at most once per binding, by the
\* first _sample call that resolves project and location; from then on the
\* flag is cached and calls run on it; a call that raised the configuration
\* error left no flag and no init behind, and neither does a rebind.
C3_InitOncePerBinding ==
    \A a \in Adapters :
        /\ hist.since_bound[a] <= 1
        /\ dict[a] <=> hist.since_bound[a] = 1
        /\ call[a].pc \in {"running", "returned"} => dict[a]
        /\ call[a].pc \in {"idle", "raised"} => ~dict[a]
        /\ (call[a].pc # "idle" /\ call[a].cached) => dict[a]

\* Initialised, rebound, initialised again, and then sampled on the cached
\* flag.
C3_Witness ==
    \E a \in Adapters :
        /\ hist.prior[a] = 1
        /\ hist.since_bound[a] = 1
        /\ call[a].pc = "returned"
        /\ call[a].cached

\* C4 as claimed: a _sample call made while project or location is unresolved
\* fails with the configuration error.
C4_UnresolvedAlwaysFails ==
    \A a \in Adapters :
        call[a].missing # {} => call[a].pc = "raised"

\* C4, amended: a _sample call made while project or location is unresolved
\* and no flag is cached raises the configuration error, naming project
\* first, with no init, no task, no result and no flag; a call made with both
\* resolved initialises and goes on.
C4_UnresolvedFailsBeforeAnyCall ==
    \A a \in Adapters :
        /\ (call[a].missing # {} /\ ~call[a].cached) =>
              /\ call[a].pc = "raised"
              /\ call[a].raised =
                    <<ValueError(IF "project" \in call[a].missing
                                 THEN "project" ELSE "location")>>
              /\ tasks[a] = <<>>
              /\ call[a].results = <<>>
              /\ ~dict[a]
              /\ hist.since_bound[a] = 0
        /\ (call[a].pc # "idle" /\ call[a].missing = {}) =>
              /\ call[a].pc \in {"running", "returned"}
              /\ call[a].raised = <<>>
              /\ dict[a]
              /\ hist.since_bound[a] = 1

\* After a configuration error the project came from the environment, the
\* location from the field, and the call initialised and returned a result.
C4_Witness ==
    \E a \in Adapters :
        /\ hist.failed[a]
        /\ call[a].pc = "returned"
        /\ ~call[a].cached
        /\ call[a].missing = {}
        /\ Falsy(adapter[a].project)
        /\ ~Falsy(environ.VERTEXAI_PROJECT)
        /\ ~Falsy(adapter[a].location)
        /\ Len(call[a].results) = 1

MaxConcurrencyOf(m) ==
    rate_to_max_concurrency(SUPPORTED_MODELS_AND_SETTINGS[m].rpm, 0)

\* The tasks of model m, of every instance, that are in `pcs`.
TasksIn(m, pcs) ==
    {p \in Adapters \X Positions :
        /\ adapter[p[1]].model = m
        /\ p[2] \in Live(p[1])
        /\ tasks[p[1]][p[2]].pc \in pcs}

InFlight(m) == Cardinality(TasksIn(m, {"inflight"}))

\* C7: the provider requests in flight for a model id, of all instances and
\* calls together, never exceed the model's max_concurrency; and the budget
\* is the model's own: while fewer tasks of the model than that are on a
\* worker, a pending task of the model can start, whatever the other models'
\* tasks do.
C7_InFlightWithinBudget ==
    /\ \A m \in Models : InFlight(m) <= MaxConcurrencyOf(m)
    /\ \A a \in Adapters : \A i \in Live(a) :
          (/\ tasks[a][i].pc = "pending"
           /\ Cardinality(TasksIn(adapter[a].model,
                                  {"start", "miss", "inflight"}))
                 < MaxConcurrencyOf(adapter[a].model)) =>
              ENABLED Start(a, i)

\* Two instances of one model: a request of one in flight, the budget used
\* up, a task of the other waiting.
C7_Witness ==
    \E a, b \in Adapters : \E i \in Live(a), j \in Live(b) :
        /\ a # b
        /\ adapter[a].model = adapter[b].model
        /\ tasks[a][i].pc = "inflight"
        /\ tasks[b][j].pc = "pending"
        /\ InFlight(adapter[a].model) = MaxConcurrencyOf(adapter[a].model)

====
